---- MODULE Spec2Model ----
(***************************************************************************)
(* Model of mpl_events/_base.py: MplEventConnection, mpl_event_handler and *)
(* MplEventDispatcher over one figure whose canvas owns a native callback  *)
(* registry.  The dispatcher subclasses are the ones the test-suite        *)
(* declares; a run instantiates the classes of one test.                   *)
(***************************************************************************)
EXTENDS Integers, Sequences, FiniteSets, TLC

\* ---------------------------------------------------------------- bounds
\* No operation registers anything once the registry's counter has reached
\* MaxCid (the counter itself is unbounded).
MaxCid == 4
\* The registry's counter when a run starts is MinCid .. MaxFirstCid: the
\* canvas may have handed out ids before the run's objects are made.
MaxFirstCid == 2
\* Emissions recorded between two calls.
MaxEmit == 1
\* add_event_filter calls a client makes on one dispatcher.
MaxFilters == 2

\* ------------------------------------------------------- MplEvent (enum)
MplEvent ==
    { "key_press_event", "key_release_event", "button_press_event",
      "button_release_event", "motion_notify_event", "scroll_event",
      "resize_event", "figure_enter_event", "figure_leave_event",
      "close_event", "axes_enter_event", "axes_leave_event",
      "pick_event", "draw_event" }

KEY_PRESS == "key_press_event"
KEY_RELEASE == "key_release_event"

\* ------------------------------------------------------------ the objects
ConnSeq == << "c1", "c2" >>
DispSeq == << "d1", "d2", "d3" >>
Conns == { ConnSeq[i] : i \in 1 .. Len(ConnSeq) }
Disps == { DispSeq[i] : i \in 1 .. Len(DispSeq) }

NoId == -1

\* The smallest id the canvas registry hands out to a client.  The ids are
\* positive: connected tests _id > 0, and the first connect() on a fresh
\* figure yields a connected connection (test_event_connection).
MinCid == 1

\* A stand-alone handler: the function object the client passed.
FunctionHandler(c) == [obj |-> c, name |-> "event_handler", cls |-> "function"]

\* _get_handler found nothing (Python's None).
NoHandler == [obj |-> "None", name |-> "None", cls |-> "None"]

\* ------------------------------------------------- the dispatcher classes
Base == "MplEventDispatcher"

\* The handler API of the base class, in the order of its declaration: each
\* method is tagged with its event kind by mpl_event_handler.
BaseHandlers ==
    << << "key_press_event", "on_key_press" >>,
       << "key_release_event", "on_key_release" >>,
       << "button_press_event", "on_mouse_button_press" >>,
       << "button_release_event", "on_mouse_button_release" >>,
       << "motion_notify_event", "on_mouse_move" >>,
       << "scroll_event", "on_mouse_wheel_scroll" >>,
       << "resize_event", "on_figure_resize" >>,
       << "figure_enter_event", "on_figure_enter" >>,
       << "figure_leave_event", "on_figure_leave" >>,
       << "close_event", "on_figure_close" >>,
       << "axes_enter_event", "on_axes_enter" >>,
       << "axes_leave_event", "on_axes_leave" >>,
       << "pick_event", "on_pick" >>,
       << "draw_event", "on_draw" >> >>

DefaultNames == { BaseHandlers[i][2] : i \in 1 .. Len(BaseHandlers) }

\* The default-named handler of an event kind.
DefaultName(e) ==
    BaseHandlers[CHOOSE i \in 1 .. Len(BaseHandlers) : BaseHandlers[i][1] = e][2]

\* A class statement: its parent, the names its body defines (its __dict__)
\* and the methods its body decorates with mpl_event_handler, in order.
ClassDef(parent, dict, tagged) == [parent |-> parent, dict |-> dict, tagged |-> tagged]

ClassTable ==
    [ MplEventDispatcher |-> ClassDef("object", DefaultNames, BaseHandlers),
      \* test_event_dispatcher
      AllHandlers        |-> ClassDef(Base, DefaultNames, << >>),
      \* test_event_dispatcher_inheritance
      EventDispatcher1   |-> ClassDef(Base, { "on_key_press" }, << >>),
      EventDispatcher2   |-> ClassDef("EventDispatcher1", { "on_key_release" }, << >>),
      \* test_event_dispatcher_change_handler(_inheritance)
      ChangeHandlerBase  |-> ClassDef(Base, { "on_key_press_custom", "on_key_release" },
                                      << << KEY_PRESS, "on_key_press_custom" >> >>),
      ChangeHandler      |-> ClassDef("ChangeHandlerBase",
                                      { "on_key_press_custom", "on_key_release" }, << >>),
      \* test_several_event_dispatchers
      SeveralBase        |-> ClassDef(Base, { }, << >>),
      Several1           |-> ClassDef("SeveralBase", { "on_key_press_custom" },
                                      << << KEY_PRESS, "on_key_press_custom" >> >>),
      Several2           |-> ClassDef("SeveralBase", { "on_key_press" }, << >>),
      Several3           |-> ClassDef("SeveralBase", { "on_key_press" }, << >>),
      \* test_event_filter
      FilterDispatcher   |-> ClassDef(Base, { "on_key_press" }, << >>) ]

Classes == DOMAIN ClassTable

\* The classes a run may instantiate, by the test that declares them.
Programs ==
    [ test_event_connection             |-> { },
      test_event_dispatcher             |-> { "AllHandlers" },
      test_event_dispatcher_inheritance |-> { "EventDispatcher1", "EventDispatcher2", Base },
      test_event_dispatcher_change_handler |-> { "ChangeHandlerBase", "ChangeHandler" },
      test_several_event_dispatchers    |-> { "Several1", "Several2", "Several3" },
      test_event_filter                 |-> { "FilterDispatcher" } ]

\* The number of dispatchers a run of each test constructs at most.
Instances ==
    [ test_event_connection             |-> 0,
      test_event_dispatcher             |-> 1,
      test_event_dispatcher_inheritance |-> 2,
      test_event_dispatcher_change_handler |-> 2,
      test_several_event_dispatchers    |-> 3,
      test_event_filter                 |-> 1 ]

\* The filter callables test_event_filter passes to add_event_filter.
Filters == { "event_filter1", "event_filter2" }

\* type(self).__mro__ without object (single inheritance throughout).
RECURSIVE mro(_)
mro(cls) == IF cls = "object" THEN << >> ELSE << cls >> \o mro(ClassTable[cls].parent)

\* HandlerDescriptor.__set_name__: a class whose body tags a method gets a
\* dictionary of its own, holding what its body tags; the base class's own
\* dictionary holds the whole handler API.
HasOwnHandlers(cls) == ClassTable[cls].tagged # << >>

\* __set_name__ without a dictionary per tagging class: every tag of every
\* class statement lands in the one dictionary of the base class.
RECURSIVE retag(_, _)
retag(items, tag) ==
    IF items = << >> THEN << >>
    ELSE << IF Head(items)[1] = tag[1] THEN tag ELSE Head(items) >> \o retag(Tail(items), tag)

mpl_event_handlers_shared(cls) ==
    LET tagging == { c \in DOMAIN ClassTable : c # Base /\ ClassTable[c].tagged # << >> }
    IN  IF tagging = {} THEN BaseHandlers
        ELSE retag(BaseHandlers, ClassTable[CHOOSE c \in tagging : TRUE].tagged[1])

\* The attribute lookup self.mpl_event_handlers: the dictionary of the first
\* class of the MRO that has one, as (event kind, method name) items in
\* insertion order.
RECURSIVE mpl_event_handlers(_)
mpl_event_handlers(cls) ==
    IF HasOwnHandlers(cls) THEN ClassTable[cls].tagged
    ELSE mpl_event_handlers(ClassTable[cls].parent)

\* getattr(self, name): the function of the first class of the MRO whose
\* body defines name, bound to self.
BoundMethod(d, cls, name) ==
    LET m == mro(cls)
        i == CHOOSE i \in 1 .. Len(m) :
                 /\ name \in ClassTable[m[i]].dict
                 /\ \A j \in 1 .. i - 1 : name \notin ClassTable[m[j]].dict
    IN  [obj |-> d, name |-> name, cls |-> m[i]]

\* _get_handler that looks in the instance's own class only.
get_handler_own_class(d, cls, handler_name) ==
    IF cls # Base /\ handler_name \in ClassTable[cls].dict
    THEN BoundMethod(d, cls, handler_name)
    ELSE NoHandler

\* _get_handler without its test "cls is not MplEventDispatcher".
get_handler_any_class(d, cls, handler_name) ==
    LET m == mro(cls)
    IN  IF \E i \in 1 .. Len(m) : handler_name \in ClassTable[m[i]].dict
        THEN BoundMethod(d, cls, handler_name)
        ELSE NoHandler

\* MplEventDispatcher._get_handler: the bound method, if a class of the MRO
\* other than MplEventDispatcher defines the name (every name a class body
\* defines here is a function, hence callable).
get_handler(d, cls, handler_name) ==
    LET m == mro(cls)
    IN  IF \E i \in 1 .. Len(m) : m[i] # Base /\ handler_name \in ClassTable[m[i]].dict
        THEN BoundMethod(d, cls, handler_name)
        ELSE NoHandler

VARIABLES
    program,        \* the test whose classes this run instantiates
    kind,           \* the event kind this run exercises besides the key events
    figure_alive,   \* the figure (and its canvas) has not been destroyed
    cid_gen,        \* the next id the canvas registry hands out
    callbacks,      \* the canvas registry: sequence of [cid, s, func]
    constructed,    \* the connection and dispatcher objects that exist
    conn,           \* conn[c]: [event, handler, id] of a MplEventConnection
    disp,           \* disp[d]: [cls, mpl_connections] of a dispatcher
    requested_filters, \* requested_filters[d]: the filters the client passed to
                    \* d.add_event_filter, in the order of the calls
    emitted,        \* the emissions since the last call: sequence of [event, calls]
    last_op         \* the call on an object or the figure that returned last: [op, obj]

vars == << program, kind, figure_alive, cid_gen, callbacks, constructed, conn, disp,
           requested_filters, emitted, last_op >>

\* The event kinds a run connects to and emits.
Kinds == { KEY_PRESS, kind }

\* Objects are allocated in the order of their names.
IsNextFree(o, objs) ==
    \E i \in 1 .. Len(objs) :
        /\ objs[i] = o
        /\ o \notin constructed
        /\ \A j \in 1 .. i - 1 : objs[j] \in constructed

\* -------------------------------------------------- the canvas registry
\* canvas.mpl_connect(s, func): registers func for s under a fresh id.
canvas_mpl_connect(reg, s, func) ==
    [ cid_gen   |-> reg.cid_gen + 1,
      callbacks |-> Append(reg.callbacks, [cid |-> reg.cid_gen, s |-> s, func |-> func]),
      cid       |-> reg.cid_gen ]

\* canvas.mpl_disconnect(cid): removes the registration made under cid.
canvas_mpl_disconnect(reg, cid) ==
    [ reg EXCEPT !.callbacks = SelectSeq(reg.callbacks, LAMBDA r : r.cid # cid) ]

\* canvas.callbacks.process(s, event): the functions registered for s, in
\* the order of their registration.
RECURSIVE FuncsOf(_)
FuncsOf(regs) ==
    IF regs = << >> THEN << >>
    ELSE << Head(regs).func >> \o FuncsOf(Tail(regs))

process(cbs, s) == FuncsOf(SelectSeq(cbs, LAMBDA r : r.s = s))

Registry == [cid_gen |-> cid_gen, callbacks |-> callbacks]

\* ------------------------------------------------------ the constructors' inputs
\* The figures a client passes to MplEventConnection: the figure of the run,
\* and a figure that has no canvas.
Figures == { "figure", "figure_without_canvas" }

\* figure.canvas is set.
has_canvas(fig) == fig = "figure"

\* The objects a client passes to a dispatcher class, by their type: the
\* axes, the figure and the canvas of the run, and a string.
MplObjects == { "Axes", "Figure", "FigureCanvas", "str" }

\* _get_figure that takes the attribute figure of whatever it is given.
get_figure_any(mpl_obj) == "figure"

\* MplEventDispatcher._get_figure: the figure of the object, or TypeError.
get_figure(mpl_obj) ==
    IF mpl_obj = "Axes" THEN "figure"
    ELSE IF mpl_obj = "Figure" THEN "figure"
    ELSE IF mpl_obj = "FigureCanvas" THEN "figure"
    ELSE "TypeError"

\* ---------------------------------------------------- MplEventConnection
\* MplEventConnection.__init__
MplEventConnection(event, handler) == [event |-> event, handler |-> handler, id |-> NoId]

\* MplEventConnection.valid, MplEventDispatcher.valid
valid == figure_alive

\* MplEventConnection.connected
connected(c) == c.id > 0 /\ valid

\* connect that registers the handler and drops the id it is given.
connect_forgets_id(c, reg) ==
    IF ~valid THEN [conn |-> [c EXCEPT !.id = NoId], reg |-> reg]
    ELSE IF connected(c) THEN [conn |-> c, reg |-> reg]
    ELSE LET r == canvas_mpl_connect(reg, c.event, c.handler)
         IN  [conn |-> c, reg |-> [cid_gen |-> r.cid_gen, callbacks |-> r.callbacks]]

\* connect without its test "if self.connected: return".
connect_always_registers(c, reg) ==
    IF ~valid THEN [conn |-> [c EXCEPT !.id = NoId], reg |-> reg]
    ELSE LET r == canvas_mpl_connect(reg, c.event, c.handler)
         IN  [conn |-> [c EXCEPT !.id = r.cid],
              reg  |-> [cid_gen |-> r.cid_gen, callbacks |-> r.callbacks]]

\* MplEventConnection.connect: the connection and the registry afterwards.
connect(c, reg) ==
    IF ~valid THEN [conn |-> [c EXCEPT !.id = NoId], reg |-> reg]
    ELSE IF connected(c) THEN [conn |-> c, reg |-> reg]
    ELSE LET r == canvas_mpl_connect(reg, c.event, c.handler)
         IN  [conn |-> [c EXCEPT !.id = r.cid],
              reg  |-> [cid_gen |-> r.cid_gen, callbacks |-> r.callbacks]]

\* disconnect that removes the registration and keeps the id.
disconnect_keeps_id(c, reg) ==
    IF ~connected(c) THEN [conn |-> c, reg |-> reg]
    ELSE [conn |-> c, reg |-> canvas_mpl_disconnect(reg, c.id)]

\* disconnect without its test "if not self.connected: return".
disconnect_unchecked(c, reg) ==
    [conn |-> [c EXCEPT !.id = NoId], reg |-> canvas_mpl_disconnect(reg, c.id)]

\* MplEventConnection.disconnect
disconnect(c, reg) ==
    IF ~connected(c) THEN [conn |-> c, reg |-> reg]
    ELSE [conn |-> [c EXCEPT !.id = NoId], reg |-> canvas_mpl_disconnect(reg, c.id)]

\* A connection class without __del__.
del_connection_nothing(c, reg) == [conn |-> c, reg |-> reg]

\* MplEventConnection.__del__
del_connection(c, reg) == disconnect(c, reg)

\* ---------------------------------------------------- MplEventDispatcher
\* MplEventDispatcher._init_connections: one connection, not connected, for
\* each item of mpl_event_handlers whose handler _get_handler finds.
RECURSIVE init_connections_loop(_, _, _)
init_connections_loop(d, cls, items) ==
    IF items = << >> THEN << >>
    ELSE LET handler == get_handler(d, cls, Head(items)[2])
             rest == init_connections_loop(d, cls, Tail(items))
         IN  IF handler # NoHandler
             THEN << MplEventConnection(Head(items)[1], handler) >> \o rest
             ELSE rest

init_connections(d, cls) == init_connections_loop(d, cls, mpl_event_handlers(cls))

\* MplEventDispatcher.__init__
MplEventDispatcher(d, cls) == [cls |-> cls, mpl_connections |-> init_connections(d, cls)]

\* The loop of mpl_disconnect leaving after its first connection.
disconnect_all_first_only(cs, reg) ==
    IF cs = << >> THEN [conns |-> << >>, reg |-> reg]
    ELSE LET r == disconnect(Head(cs), reg)
         IN  [conns |-> << r.conn >> \o Tail(cs), reg |-> r.reg]

\* for conn in self._mpl_connections: conn.disconnect()
RECURSIVE disconnect_all(_, _)
disconnect_all(cs, reg) ==
    IF cs = << >> THEN [conns |-> << >>, reg |-> reg]
    ELSE LET r == disconnect(Head(cs), reg)
             t == disconnect_all(Tail(cs), r.reg)
         IN  [conns |-> << r.conn >> \o t.conns, reg |-> t.reg]

\* The loop of mpl_connect leaving after its first connection.
connect_all_first_only(cs, reg) ==
    IF cs = << >> THEN [conns |-> << >>, reg |-> reg]
    ELSE LET r == connect(Head(cs), reg)
         IN  [conns |-> << r.conn >> \o Tail(cs), reg |-> r.reg]

\* for conn in self._mpl_connections: conn.connect()
RECURSIVE connect_all(_, _)
connect_all(cs, reg) ==
    IF cs = << >> THEN [conns |-> << >>, reg |-> reg]
    ELSE LET r == connect(Head(cs), reg)
             t == connect_all(Tail(cs), r.reg)
         IN  [conns |-> << r.conn >> \o t.conns, reg |-> t.reg]

\* mpl_disconnect that also empties the list of connections.
mpl_disconnect_clears(cs, reg) ==
    IF ~valid THEN [conns |-> cs, reg |-> reg]
    ELSE [conns |-> << >>, reg |-> disconnect_all(cs, reg).reg]

\* MplEventDispatcher.mpl_disconnect
mpl_disconnect(cs, reg) ==
    IF ~valid THEN [conns |-> cs, reg |-> reg]
    ELSE disconnect_all(cs, reg)

\* mpl_connect without its test "if not self.valid: return".
mpl_connect_unguarded(cs, reg) ==
    LET r == disconnect_all(cs, reg)
    IN  connect_all(r.conns, r.reg)

\* The connections of a dispatcher are destroyed: __del__ of each.
RECURSIVE del_connections(_, _)
del_connections(cs, reg) ==
    IF cs = << >> THEN [conns |-> << >>, reg |-> reg]
    ELSE LET r == del_connection(Head(cs), reg)
             t == del_connections(Tail(cs), r.reg)
         IN  [conns |-> << r.conn >> \o t.conns, reg |-> t.reg]

\* MplEventDispatcher.mpl_connect
mpl_connect(cs, reg) ==
    IF ~valid THEN [conns |-> cs, reg |-> reg]
    ELSE LET r == mpl_disconnect(cs, reg)
         IN  connect_all(r.conns, r.reg)

\* A dispatcher class without __del__.
del_dispatcher_nothing(cs, reg) == [conns |-> cs, reg |-> reg]

\* MplEventDispatcher.__del__; the __del__ of each of its connections, which
\* die with it, follows.
del_dispatcher(cs, reg) ==
    LET r == mpl_disconnect(cs, reg)
    IN  del_connections(r.conns, r.reg)

\* ----------------------------------------------------------------- actions
Init ==
    /\ program \in DOMAIN Programs
    /\ kind \in (IF program \in { "test_event_connection", "test_event_dispatcher" }
                 THEN MplEvent ELSE { KEY_RELEASE })
    /\ figure_alive = TRUE
    /\ cid_gen \in MinCid .. MaxFirstCid
    /\ callbacks = << >>
    /\ constructed = {}
    /\ conn = [c \in Conns |-> MplEventConnection(kind, FunctionHandler(c))]
    /\ disp = [d \in Disps |-> [cls |-> Base, mpl_connections |-> << >>]]
    /\ requested_filters = [d \in Disps |-> << >>]
    /\ emitted = << >>
    /\ last_op = [op |-> "none", obj |-> "none"]

\* connection = MplEventConnection(fig, event, event_handler): raises
\* ValueError, before it sets any attribute, when fig has no canvas (the
\* __del__ of the object that was not initialised then fails on its missing
\* attributes before it reaches a canvas).
NewConnection(c, e, fig) ==
    /\ program = "test_event_connection"
    /\ figure_alive
    /\ IsNextFree(c, ConnSeq)
    /\ IF has_canvas(fig)
       THEN /\ constructed' = constructed \cup {c}
            /\ conn' = [conn EXCEPT ![c] = MplEventConnection(e, FunctionHandler(c))]
            /\ last_op' = [op |-> "MplEventConnection", obj |-> c]
       ELSE /\ last_op' = [op |-> "ValueError", obj |-> c]
            /\ UNCHANGED << constructed, conn >>
    /\ emitted' = << >>
    /\ UNCHANGED << program, kind, requested_filters, figure_alive, cid_gen, callbacks, disp >>

\* connection.connect()
Connect(c) ==
    /\ c \in constructed
    /\ valid => cid_gen < MaxCid
    /\ LET r == connect(conn[c], Registry)
       IN  /\ conn' = [conn EXCEPT ![c] = r.conn]
           /\ cid_gen' = r.reg.cid_gen
           /\ callbacks' = r.reg.callbacks
    /\ last_op' = [op |-> "connect", obj |-> c]
    /\ emitted' = << >>
    /\ UNCHANGED << program, kind, requested_filters, figure_alive, constructed, disp >>

\* connection.disconnect()
Disconnect(c) ==
    /\ c \in constructed
    /\ LET r == disconnect(conn[c], Registry)
       IN  /\ conn' = [conn EXCEPT ![c] = r.conn]
           /\ cid_gen' = r.reg.cid_gen
           /\ callbacks' = r.reg.callbacks
    /\ last_op' = [op |-> "disconnect", obj |-> c]
    /\ emitted' = << >>
    /\ UNCHANGED << program, kind, requested_filters, figure_alive, constructed, disp >>

\* dispatcher = cls(mpl_obj): raises TypeError, before it sets any attribute,
\* when _get_figure does not know the type of mpl_obj.  As in the tests, a
\* run holds one dispatcher of a class at a time.
NewDispatcher(d, cls, mpl_obj) ==
    /\ cls \in Programs[program]
    /\ Cardinality(constructed \cap Disps) < Instances[program]
    /\ \A o \in constructed \cap Disps : disp[o].cls # cls
    /\ figure_alive
    /\ IsNextFree(d, DispSeq)
    /\ IF get_figure(mpl_obj) # "TypeError"
       THEN /\ constructed' = constructed \cup {d}
            /\ disp' = [disp EXCEPT ![d] = MplEventDispatcher(d, cls)]
            /\ last_op' = [op |-> "MplEventDispatcher", obj |-> d]
       ELSE /\ last_op' = [op |-> "TypeError", obj |-> d]
            /\ UNCHANGED << constructed, disp >>
    /\ emitted' = << >>
    /\ UNCHANGED << program, kind, requested_filters, figure_alive, cid_gen, callbacks, conn >>

\* dispatcher.mpl_connect()
MplConnect(d) ==
    /\ d \in constructed
    /\ valid => cid_gen < MaxCid
    /\ LET r == mpl_connect(disp[d].mpl_connections, Registry)
       IN  /\ disp' = [disp EXCEPT ![d].mpl_connections = r.conns]
           /\ cid_gen' = r.reg.cid_gen
           /\ callbacks' = r.reg.callbacks
    /\ last_op' = [op |-> "mpl_connect", obj |-> d]
    /\ emitted' = << >>
    /\ UNCHANGED << program, kind, requested_filters, figure_alive, constructed, conn >>

\* dispatcher.mpl_disconnect()
MplDisconnect(d) ==
    /\ d \in constructed
    /\ LET r == mpl_disconnect(disp[d].mpl_connections, Registry)
       IN  /\ disp' = [disp EXCEPT ![d].mpl_connections = r.conns]
           /\ cid_gen' = r.reg.cid_gen
           /\ callbacks' = r.reg.callbacks
    /\ last_op' = [op |-> "mpl_disconnect", obj |-> d]
    /\ emitted' = << >>
    /\ UNCHANGED << program, kind, requested_filters, figure_alive, constructed, conn >>

\* dispatcher.mpl_connections[i].connect(): the client connects one of the
\* connections the dispatcher exposes.
ConnectOne(d, i) ==
    /\ d \in constructed
    /\ i \in DOMAIN disp[d].mpl_connections
    /\ disp[d].mpl_connections[i].event \in Kinds
    /\ valid => cid_gen < MaxCid
    /\ LET r == connect(disp[d].mpl_connections[i], Registry)
       IN  /\ disp' = [disp EXCEPT ![d].mpl_connections[i] = r.conn]
           /\ cid_gen' = r.reg.cid_gen
           /\ callbacks' = r.reg.callbacks
    /\ last_op' = [op |-> "mpl_connections.connect", obj |-> d]
    /\ emitted' = << >>
    /\ UNCHANGED << program, kind, requested_filters, figure_alive, constructed, conn >>

\* dispatcher.mpl_connections[i].disconnect()
DisconnectOne(d, i) ==
    /\ d \in constructed
    /\ i \in DOMAIN disp[d].mpl_connections
    /\ disp[d].mpl_connections[i].event \in Kinds
    /\ LET r == disconnect(disp[d].mpl_connections[i], Registry)
       IN  /\ disp' = [disp EXCEPT ![d].mpl_connections[i] = r.conn]
           /\ cid_gen' = r.reg.cid_gen
           /\ callbacks' = r.reg.callbacks
    /\ last_op' = [op |-> "mpl_connections.disconnect", obj |-> d]
    /\ emitted' = << >>
    /\ UNCHANGED << program, kind, requested_filters, figure_alive, constructed, conn >>

\* del connection: the last reference to the connection goes and its __del__
\* runs.
DelConnection(c) ==
    /\ c \in constructed
    /\ LET r == del_connection(conn[c], Registry)
       IN  /\ cid_gen' = r.reg.cid_gen
           /\ callbacks' = r.reg.callbacks
    /\ constructed' = constructed \ {c}
    /\ conn' = [conn EXCEPT ![c] = MplEventConnection(kind, FunctionHandler(c))]
    /\ last_op' = [op |-> "__del__", obj |-> c]
    /\ emitted' = << >>
    /\ UNCHANGED << program, kind, requested_filters, figure_alive, disp >>

\* del dispatcher: the dispatcher is collected and its __del__ runs.
DelDispatcher(d) ==
    /\ d \in constructed
    /\ LET r == del_dispatcher(disp[d].mpl_connections, Registry)
       IN  /\ cid_gen' = r.reg.cid_gen
           /\ callbacks' = r.reg.callbacks
    /\ constructed' = constructed \ {d}
    /\ disp' = [disp EXCEPT ![d] = [cls |-> Base, mpl_connections |-> << >>]]
    /\ requested_filters' = [requested_filters EXCEPT ![d] = << >>]
    /\ last_op' = [op |-> "__del__", obj |-> d]
    /\ emitted' = << >>
    /\ UNCHANGED << program, kind, figure_alive, conn >>

\* dispatcher.add_event_filter(f): MplEventDispatcher defines no attribute of
\* that name, the call raises AttributeError and the dispatcher is as before.
AddEventFilter(d, f) ==
    /\ program = "test_event_filter"
    /\ d \in constructed
    /\ Len(requested_filters[d]) < MaxFilters
    /\ requested_filters' = [requested_filters EXCEPT ![d] = Append(@, f)]
    /\ emitted' = << >>
    /\ last_op' = [op |-> "add_event_filter", obj |-> d]
    /\ UNCHANGED << program, kind, figure_alive, cid_gen, callbacks, constructed, conn, disp >>

\* The canvas emits an event of kind s: every function registered for s runs.
Emit(s) ==
    /\ figure_alive
    /\ Len(emitted) < MaxEmit
    /\ emitted' = Append(emitted, [event |-> s, calls |-> process(callbacks, s)])
    /\ UNCHANGED << program, kind, requested_filters, figure_alive, cid_gen, callbacks, constructed, conn, disp,
                    last_op >>

\* The figure is destroyed: the weak references die, the canvas and its
\* registry go with it.
DestroyFigure ==
    /\ figure_alive
    /\ figure_alive' = FALSE
    /\ callbacks' = << >>
    /\ last_op' = [op |-> "destroy", obj |-> "figure"]
    /\ emitted' = << >>
    /\ UNCHANGED << program, kind, requested_filters, cid_gen, constructed, conn, disp >>

Next ==
    \/ \E c \in Conns, e \in Kinds, fig \in Figures : NewConnection(c, e, fig)
    \/ \E c \in Conns : Connect(c)
    \/ \E c \in Conns : Disconnect(c)
    \/ \E d \in Disps, cls \in Classes, mpl_obj \in MplObjects : NewDispatcher(d, cls, mpl_obj)
    \/ \E d \in Disps : MplConnect(d)
    \/ \E d \in Disps : MplDisconnect(d)
    \/ \E d \in Disps, i \in 1 .. Len(BaseHandlers) : ConnectOne(d, i)
    \/ \E d \in Disps, i \in 1 .. Len(BaseHandlers) : DisconnectOne(d, i)
    \/ \E c \in Conns : DelConnection(c)
    \/ \E d \in Disps : DelDispatcher(d)
    \/ \E d \in Disps, f \in Filters : AddEventFilter(d, f)
    \/ \E s \in Kinds : Emit(s)
    \/ DestroyFigure

Spec == Init /\ [][Next]_vars

\* ------------------------------------------------------------- vocabulary
Range(f) == { f[i] : i \in DOMAIN f }

\* The number of times x occurs in the sequence q.
Count(q, x) == Cardinality({ i \in DOMAIN q : q[i] = x })

\* The registrations the registry holds for the handler of c, under any id.
RegistrationsOf(c) ==
    { i \in DOMAIN callbacks : callbacks[i].func = c.handler /\ callbacks[i].s = c.event }

LiveConns == Conns \cap constructed
LiveDisps == Disps \cap constructed

Called(op, o) == last_op = [op |-> op, obj |-> o]

\* ------------------------------------------------------------------ C1
\* C1: on a connection whose figure is alive, connected is True after
\* connect() has returned and False after a following disconnect() has
\* returned, whatever the event kind.
C1_ConnectedAfterConnect ==
    \A c \in LiveConns :
        figure_alive =>
            /\ Called("connect", c) => connected(conn[c])
            /\ Called("disconnect", c) => ~connected(conn[c])

\* The only connection of the run was connected (the counter has moved past
\* its start) and its disconnect() has just returned.
C1_Witness ==
    /\ figure_alive
    /\ LiveConns = { "c1" }
    /\ Called("disconnect", "c1")
    /\ cid_gen > MaxFirstCid
    /\ conn["c1"].event = kind

\* ------------------------------------------------------------------ C2
\* C2: in every reachable state valid is True iff the figure still exists,
\* and connected is True iff the registry holds a registration this
\* connection made, whatever id the registry returned for it.
C2_ValidAndConnected ==
    /\ valid <=> figure_alive
    /\ \A c \in LiveConns :
          connected(conn[c]) <=> RegistrationsOf(conn[c]) # {}

\* A connection that was connected when its figure was destroyed: it still
\* holds the id the registry gave it.
C2_Witness ==
    \E c \in LiveConns : ~figure_alive /\ conn[c].id >= MinCid

\* ------------------------------------------------------------------ C3
\* C3: a connection constructed on a live figure is connected as soon as its
\* constructor has returned, and an emission of its event kind that follows
\* invokes its handler.
C3_ConnectedByConstruction ==
    \A c \in LiveConns :
        (Called("MplEventConnection", c) /\ figure_alive) =>
            /\ connected(conn[c])
            /\ \A i \in DOMAIN emitted :
                  emitted[i].event = conn[c].event
                      => Count(emitted[i].calls, conn[c].handler) = 1

\* ------------------------------------------------- dispatcher vocabulary
\* The calls of one emission that went to functions bound to the object o.
CallsTo(o, emission) == SelectSeq(emission.calls, LAMBDA f : f.obj = o)

\* The connections of the dispatcher d for the event kind e.
ConnectionsFor(d, e) ==
    { i \in DOMAIN disp[d].mpl_connections : disp[d].mpl_connections[i].event = e }

\* The dispatcher d holds exactly one connection for e, to its method name.
Services(d, e, name) ==
    /\ Cardinality(ConnectionsFor(d, e)) = 1
    /\ \A i \in ConnectionsFor(d, e) :
          disp[d].mpl_connections[i].handler = BoundMethod(d, disp[d].cls, name)

\* The registrations the registry holds for functions bound to the object o.
RegisteredBy(o) == { i \in DOMAIN callbacks : callbacks[i].func.obj = o }

\* Every connection of the dispatcher d is connected.
Wired(d) ==
    \A i \in DOMAIN disp[d].mpl_connections : connected(disp[d].mpl_connections[i])

\* ------------------------------------------------------------------ C4
\* C4: for every event kind E, a dispatcher whose class implements every
\* default-named handler is wired by its construction alone: an emission of
\* E that follows the constructor invokes the dispatcher's handler for E.
C4_DispatcherWiredByConstruction ==
    \A d \in LiveDisps :
        (Called("MplEventDispatcher", d) /\ figure_alive /\ disp[d].cls = "AllHandlers") =>
            \A i \in DOMAIN emitted :
                Count(emitted[i].calls,
                      BoundMethod(d, "AllHandlers", DefaultName(emitted[i].event))) >= 1

\* ------------------------------------------------------------------ C5
\* An event kind whose mapped handler name no class of the hierarchy other
\* than MplEventDispatcher defines.
BaseOnly(cls, e) ==
    \E i \in DOMAIN mpl_event_handlers(cls) :
        /\ mpl_event_handlers(cls)[i][1] = e
        /\ \A k \in DOMAIN mro(cls) :
              mro(cls)[k] # Base =>
                  mpl_event_handlers(cls)[i][2] \notin ClassTable[mro(cls)[k]].dict

\* The event kinds of each class that only the base class implements.
BaseOnlyKinds == [cls \in Classes |-> { e \in MplEvent : BaseOnly(cls, e) }]

\* C5: the handler methods of the base class are never connected: for an
\* event kind whose mapped handler name only MplEventDispatcher defines, the
\* dispatcher holds no connection and the registry holds no registration of
\* the dispatcher, whatever mpl_connect() and mpl_disconnect() calls were made.
C5_BaseHandlersNeverConnected ==
    \A d \in LiveDisps : \A e \in BaseOnlyKinds[disp[d].cls] :
        /\ ConnectionsFor(d, e) = {}
        /\ \A i \in RegisteredBy(d) : callbacks[i].s # e

\* A dispatcher that implements on_key_press and not on_key_release has been
\* connected, its key-press handler is registered and a key release was
\* emitted.
C5_Witness ==
    \E d \in LiveDisps :
        /\ Called("mpl_connect", d)
        /\ disp[d].cls = "EventDispatcher1"
        /\ KEY_RELEASE \in BaseOnlyKinds["EventDispatcher1"]
        /\ RegisteredBy(d) # {}
        /\ emitted # << >>
        /\ emitted[1].event = KEY_RELEASE

\* ------------------------------------------------------------------ C6
\* C6: a class that tags a differently named method for KEY_PRESS and also
\* defines the default-named on_key_release services both kinds: it holds a
\* connection for each, and while its connections are connected an emission
\* of either kind invokes that kind's handler, once.
C6_OverrideKeepsDefaultHandlers ==
    \A d \in LiveDisps :
        (disp[d].cls = "ChangeHandlerBase" /\ figure_alive) =>
            /\ Services(d, KEY_PRESS, "on_key_press_custom")
            /\ Services(d, KEY_RELEASE, "on_key_release")
            /\ Wired(d) =>
                  \A i \in DOMAIN emitted :
                      CallsTo(d, emitted[i]) =
                          << BoundMethod(d, "ChangeHandlerBase",
                                 IF emitted[i].event = KEY_PRESS
                                 THEN "on_key_press_custom" ELSE "on_key_release") >>

C8_OverrideIsInherited ==
    \A d \in LiveDisps :
        (disp[d].cls = "ChangeHandler" /\ figure_alive) =>
            /\ Services(d, KEY_PRESS, "on_key_press_custom")
            /\ Services(d, KEY_RELEASE, "on_key_release")
            /\ \A i \in DOMAIN disp[d].mpl_connections :
                  disp[d].mpl_connections[i].handler.cls = "ChangeHandler"

\* ------------------------------------------------------------------ C9
\* The method that services KEY_PRESS in each of the sibling classes.
SiblingHandler ==
    [ Several1 |-> "on_key_press_custom",
      Several2 |-> "on_key_press",
      Several3 |-> "on_key_press" ]

FilterCall(d, f) == [obj |-> d, name |-> f, cls |-> "filter"]

\* C10: the filters added to a dispatcher run before its handler, in the
\* order they were added: an emission of the kind its handler is registered
\* for (once) invokes filter 1, filter 2, ... and then the handler, each
\* exactly once.
C10_FiltersRunBeforeHandler ==
    \A d \in LiveDisps :
        (disp[d].cls = "FilterDispatcher" /\ figure_alive) =>
            \A i \in DOMAIN emitted :
                (emitted[i].event = KEY_PRESS /\ Cardinality(RegisteredBy(d)) = 1) =>
                    CallsTo(d, emitted[i]) =
                        [k \in 1 .. Len(requested_filters[d]) |->
                            FilterCall(d, requested_filters[d][k])]
                        \o << BoundMethod(d, "FilterDispatcher", "on_key_press") >>

\* ------------------------------------------------------------------ C11
\* The filters of test_event_filter that return True for every event, in the
\* run with filter_flag = True.
ReturnsTrue == Filters

\* C11: a filter that returns True ends the dispatch: of an emission of
\* KEY_PRESS a dispatcher whose first filter returns True sees that filter's
\* call at most; no later filter and no handler is invoked.
C11_FilterShortCircuits ==
    \A d \in LiveDisps :
        ( /\ disp[d].cls = "FilterDispatcher"
          /\ figure_alive
          /\ requested_filters[d] # << >>
          /\ requested_filters[d][1] \in ReturnsTrue ) =>
            \A i \in DOMAIN emitted :
                emitted[i].event = KEY_PRESS =>
                    \A k \in DOMAIN CallsTo(d, emitted[i]) :
                        CallsTo(d, emitted[i])[k] = FilterCall(d, requested_filters[d][1])

\* ------------------------------------------------------------------ C12
\* C12: whatever connect() and disconnect() calls were made on a connection,
\* the registry holds at most one registration of its handler; a connect() on
\* a connected connection registers nothing and leaves the id as it was.
C12_AtMostOneRegistration ==
    /\ [](\A c \in LiveConns : Cardinality(RegistrationsOf(conn[c])) <= 1)
    /\ [][\A c \in LiveConns :
             (Connect(c) /\ connected(conn[c])) =>
                 /\ callbacks' = callbacks
                 /\ cid_gen' = cid_gen
                 /\ conn'[c].id = conn[c].id]_vars

\* The only connection of the run is connected for the second time at least:
\* its id is beyond the ids a first connect() can get.
C12_Witness ==
    /\ LiveConns = { "c1" }
    /\ Called("connect", "c1")
    /\ connected(conn["c1"])
    /\ conn["c1"].id > MaxFirstCid
    /\ Cardinality(RegistrationsOf(conn["c1"])) = 1

\* ------------------------------------------------------------------ C13
\* C13: when mpl_connect() has returned on a dispatcher whose figure is
\* alive, every connection of the dispatcher is connected and the registry
\* holds each of its handlers exactly once, however often mpl_connect() was
\* called and whatever the connections' state was before.
C13_ConnectedExactlyOnce ==
    \A d \in LiveDisps :
        (Called("mpl_connect", d) /\ figure_alive) =>
            /\ Wired(d)
            /\ \A i \in DOMAIN disp[d].mpl_connections :
                  Cardinality(RegistrationsOf(disp[d].mpl_connections[i])) = 1
            /\ Cardinality(RegisteredBy(d)) = Len(disp[d].mpl_connections)

\* The only dispatcher of the run holds two connections and mpl_connect()
\* has returned for the second time at least: the ids are beyond the ids a
\* first mpl_connect() can get.
C13_Witness ==
    \E d \in LiveDisps :
        /\ LiveDisps = { d }
        /\ figure_alive
        /\ Called("mpl_connect", d)
        /\ Len(disp[d].mpl_connections) = 2
        /\ disp[d].mpl_connections[1].id > MaxFirstCid

\* ------------------------------------------------------------------ C14
\* No connection of the dispatcher d is connected.
Unwired(d) ==
    \A i \in DOMAIN disp[d].mpl_connections : ~connected(disp[d].mpl_connections[i])

\* C14: when mpl_disconnect() has returned on a dispatcher whose figure is
\* alive, none of its connections is connected; and as long as none is
\* connected (until the next mpl_connect()), the registry holds no
\* registration of the dispatcher and an emission invokes none of its
\* handlers.
C14_NothingAfterDisconnect ==
    \A d \in LiveDisps :
        figure_alive =>
            /\ Called("mpl_disconnect", d) => Unwired(d)
            /\ Unwired(d) =>
                  /\ RegisteredBy(d) = {}
                  /\ \A i \in DOMAIN emitted : CallsTo(d, emitted[i]) = << >>

\* A dispatcher that implements every handler was connected and then
\* disconnected, and the event kind of the run was emitted after that.
C14_Witness ==
    \E d \in LiveDisps :
        /\ figure_alive
        /\ Called("mpl_disconnect", d)
        /\ disp[d].cls = "AllHandlers"
        /\ cid_gen > MaxFirstCid
        /\ emitted # << >>
        /\ emitted[1].event = kind

\* ------------------------------------------------------------------ C15
\* C15: once the figure is destroyed it stays destroyed, valid is False and
\* no connection, stand-alone or of a dispatcher, is connected; connect()
\* then sets the id to -1 and registers nothing, and mpl_connect() and
\* mpl_disconnect() change no connection and call nothing on the registry.
C15_DeadFigure ==
    /\ [](~figure_alive =>
             /\ ~valid
             /\ \A c \in LiveConns :
                   /\ ~connected(conn[c])
                   /\ Called("connect", c) => conn[c].id = NoId
             /\ \A d \in LiveDisps : Unwired(d))
    /\ [][~figure_alive =>
             /\ ~figure_alive'
             /\ callbacks' = callbacks
             /\ cid_gen' = cid_gen
             /\ \A d \in LiveDisps :
                   (MplConnect(d) \/ MplDisconnect(d)) => disp' = disp]_vars

\* mpl_connect() has returned on a dispatcher whose figure was destroyed
\* while it was connected: its connections still hold their ids.
C15_Witness ==
    \E d \in LiveDisps :
        /\ ~figure_alive
        /\ Called("mpl_connect", d)
        /\ \E i \in DOMAIN disp[d].mpl_connections :
              disp[d].mpl_connections[i].id >= MinCid

\* ------------------------------------------------------------------ C16
\* The event kind and the handler of each connection of a list, in order.
Mapping(cs) == [i \in DOMAIN cs |-> << cs[i].event, cs[i].handler >>]

\* C16: the mapping of a dispatcher is resolved at its construction: its
\* list of connections holds at most one connection per event kind and is, up
\* to the ids, the list the constructor built; no mpl_connect(),
\* mpl_disconnect(), emission or other step changes the connections, their
\* event kinds or their handlers while the dispatcher exists.
C16_MappingResolvedOnce ==
    /\ [](\A d \in LiveDisps :
             /\ \A e \in MplEvent : Cardinality(ConnectionsFor(d, e)) <= 1
             /\ Mapping(disp[d].mpl_connections) = Mapping(init_connections(d, disp[d].cls)))
    /\ [][\A d \in LiveDisps :
             d \in constructed' =>
                 /\ disp'[d].cls = disp[d].cls
                 /\ Mapping(disp'[d].mpl_connections) = Mapping(disp[d].mpl_connections)]_vars

\* A dispatcher with two handlers was connected (both ids set), one
\* connection was disconnected again and a key press was emitted.
C16_Witness ==
    \E d \in LiveDisps :
        /\ disp[d].cls = "EventDispatcher2"
        /\ Len(disp[d].mpl_connections) = 2
        /\ disp[d].mpl_connections[1].id >= MinCid
        /\ disp[d].mpl_connections[2].id = NoId
        /\ cid_gen >= disp[d].mpl_connections[1].id + 2
        /\ emitted # << >>
        /\ emitted[1].event = KEY_PRESS

\* ------------------------------------------------------------------ C17
\* C17: disconnect() on a connection that is not connected changes neither
\* the registry nor the connection's id nor any other connection;
\* disconnect() on a connected connection removes the one registration of
\* its handler, and nothing else, from the registry.
C17_DisconnectFrame ==
    [][\A c \in LiveConns :
          Disconnect(c) =>
              /\ \A o \in LiveConns \ { c } : conn'[o] = conn[o]
              /\ disp' = disp
              /\ cid_gen' = cid_gen
              /\ IF connected(conn[c])
                 THEN /\ Len(callbacks') = Len(callbacks) - 1
                      /\ callbacks' = SelectSeq(callbacks,
                                          LAMBDA r : r.func # conn[c].handler)
                      /\ RegistrationsOf(conn[c])' = {}
                 ELSE /\ callbacks' = callbacks
                      /\ conn'[c].id = conn[c].id]_vars

\* Two connections were connected, the first one last (the counter is two
\* past the id of the second), and disconnect() has returned on the first:
\* the registration of the second is the one the registry holds.
C17_Witness ==
    /\ figure_alive
    /\ Called("disconnect", "c1")
    /\ conn["c1"].id = NoId
    /\ connected(conn["c2"])
    /\ cid_gen >= conn["c2"].id + 2
    /\ Len(callbacks) = 1
    /\ callbacks[1].func = conn["c2"].handler

\* ------------------------------------------------------------------ C18
\* A failed construction leaves the registry and every object as they were.
NothingChanged ==
    /\ callbacks' = callbacks
    /\ cid_gen' = cid_gen
    /\ constructed' = constructed
    /\ conn' = conn
    /\ disp' = disp

\* C18: MplEventConnection raises ValueError for a figure without canvas,
\* a dispatcher class raises TypeError for an object that is not an Axes, a
\* Figure or a FigureCanvas, and either failure constructs nothing and
\* registers nothing.
C18_ConstructionFailsCleanly ==
    [][ /\ \A c \in Conns, e \in Kinds :
             NewConnection(c, e, "figure_without_canvas") =>
                 (last_op' = [op |-> "ValueError", obj |-> c] /\ NothingChanged)
        /\ \A d \in Disps, cls \in Classes :
             NewDispatcher(d, cls, "str") =>
                 (last_op' = [op |-> "TypeError", obj |-> d] /\ NothingChanged) ]_vars

\* A dispatcher is connected and the construction of a second dispatcher
\* from a string has raised TypeError.
C18_Witness ==
    /\ Called("TypeError", "d2")
    /\ LiveDisps = { "d1" }
    /\ Wired("d1")
    /\ RegisteredBy("d1") # {}

\* ------------------------------------------------------------------ C19
\* C19: while the figure is alive, the registry holds no registration made
\* by a connection or a dispatcher that was destroyed, and an emission invokes
\* no handler of a destroyed connection or dispatcher.
C19_DestroyedObjectsAreGone ==
    figure_alive =>
        \A o \in (Conns \cup Disps) \ constructed :
            /\ RegisteredBy(o) = {}
            /\ \A i \in DOMAIN emitted : CallsTo(o, emitted[i]) = << >>

\* The only dispatcher of the run registered its handlers and was destroyed,
\* and a key press was emitted after that.
C19_Witness ==
    /\ figure_alive
    /\ Called("__del__", "d1")
    /\ LiveDisps = {}
    /\ program = "test_event_dispatcher"
    /\ cid_gen > MaxFirstCid
    /\ emitted # << >>
    /\ emitted[1].event = KEY_PRESS

====
